---- MODULE Spec2Model ----
(***************************************************************************)
(* Model of the point-of-sale inventory server (src/server.js and its     *)
(* near-duplicate src/unnamed/part_000).  The persisted document          *)
(* database.json is the variable `file`; each Express handler is one      *)
(* action, because every handler is synchronous from readDatabase() to    *)
(* res.json().  Failures of fs.readFileSync / fs.writeFileSync are        *)
(* inputs of the handlers (readOk, writeOk).                              *)
(*                                                                         *)
(* Abstractions: the fields name/price of a sale item and category/price/ *)
(* lowStockThreshold of a product are copied through by the code and      *)
(* decide nothing, so they are left out.  generateId() (time part plus    *)
(* random part) is the pair <<now, k>>: the clock value of the call and   *)
(* the number of the generateId() call inside the handler.                *)
(***************************************************************************)
EXTENDS Integers, Sequences, FiniteSets, TLC

VARIABLES file, now, req, resp, io

\* Requests that have arrived together: those waiting for the event loop,
\* the handlers that have read the document and not yet returned, and the
\* calls that have returned, in the order of their return.
VARIABLES inflight, frames, order

concurrent == <<inflight, frames, order>>

vars == <<file, now, req, resp, io, inflight, frames, order>>

----------------------------------------------------------------------------
(* Bounds of the model *)

MaxCalls == 3
MaxItems == 2
MaxQty == 2

----------------------------------------------------------------------------
(* JavaScript values that reach the arithmetic of the handlers *)

Num(n) == [k |-> "num", v |-> n]
NaN == [k |-> "nan", v |-> 0]
Null == [k |-> "null", v |-> 0]
Undef == [k |-> "undef", v |-> 0]
Str == [k |-> "str", v |-> 0]

IsNum(x) == x.k = "num"

\* Number(x): a number is itself, null is 0, undefined and a non-numeric
\* string are NaN.
ToNumber(x) ==
  CASE x.k = "num" -> x
    [] x.k = "null" -> Num(0)
    [] OTHER -> NaN

\* !x is false exactly for the truthy values: a non-zero number or a
\* non-empty string.
Truthy(x) ==
  CASE x.k = "num" -> x.v # 0
    [] x.k = "str" -> TRUE
    [] OTHER -> FALSE

\* a < b and a <= b of JavaScript: both sides go through ToNumber and any
\* comparison with NaN is false.
Lt(a, b) ==
  LET x == ToNumber(a)
      y == ToNumber(b)
  IN IsNum(x) /\ IsNum(y) /\ x.v < y.v

Le(a, b) ==
  LET x == ToNumber(a)
      y == ToNumber(b)
  IN IsNum(x) /\ IsNum(y) /\ x.v <= y.v

\* a - b of JavaScript (the arithmetic of a -= b).
Sub(a, b) ==
  LET x == ToNumber(a)
      y == ToNumber(b)
  IN IF IsNum(x) /\ IsNum(y) THEN Num(x.v - y.v) ELSE NaN

\* A number after JSON.stringify and JSON.parse: NaN is written as null.
Json(x) == IF x.k = "nan" THEN Null ELSE x

----------------------------------------------------------------------------
(* The document and its serialisation *)

EmptyDB == [products |-> <<>>, sales |-> <<>>, customers |-> <<>>,
            stockTransactions |-> <<>>]

JsonProduct(p) == [p EXCEPT !.quantity = Json(@)]

JsonItem(i) == [i EXCEPT !.quantity = Json(@)]

JsonSale(s) ==
  [s EXCEPT !.items = [j \in DOMAIN s.items |-> JsonItem(s.items[j])],
            !.totalAmount = Json(@)]

JsonTransaction(t) == [t EXCEPT !.quantity = Json(@)]

\* JSON.parse(JSON.stringify(data)): what a later read finds of `data`.
Serialize(db) ==
  [products |-> [j \in DOMAIN db.products |-> JsonProduct(db.products[j])],
   sales |-> [j \in DOMAIN db.sales |-> JsonSale(db.sales[j])],
   customers |-> db.customers,
   stockTransactions |->
     [j \in DOMAIN db.stockTransactions |->
        JsonTransaction(db.stockTransactions[j])]]

readDatabase(f, readOk) == IF readOk THEN f ELSE EmptyDB

\* The document after writeDatabase(data); the boolean it returns is not
\* looked at by any caller.
writeDatabase(f, data, writeOk) == IF writeOk THEN Serialize(data) ELSE f

generateId(t, k) == <<t, k>>

----------------------------------------------------------------------------
(* Responses *)

NoResp == [status |-> 0]

ItemsRequired == [status |-> 400, error |-> "Items array required"]

TotalRequired == [status |-> 400, error |-> "Valid totalAmount required"]

NotFound(productId) ==
  [status |-> 400, error |-> "Product not found", productId |-> productId]

InsufficientStock(product, item) ==
  [status |-> 400, error |-> "Insufficient stock", name |-> product.name,
   available |-> product.quantity, requested |-> item.quantity]

ServerError == [status |-> 500, error |-> "TypeError"]

SaleRecorded(sale) ==
  [status |-> 201, message |-> "Sale recorded", sale |-> JsonSale(sale)]

ProductCreated(product) ==
  [status |-> 201, product |-> JsonProduct(product)]

Listing(list) == [status |-> 200, list |-> list]

----------------------------------------------------------------------------
(* POST /api/products *)

newProduct(r, t) ==
  [id |-> generateId(t, 0), name |-> r.name, quantity |-> ToNumber(r.quantity),
   createdAt |-> t, updatedAt |-> t]

\* The handler: the document it leaves and the response it sends.
createProduct(f, r, t, readOk, writeOk) ==
  LET db == readDatabase(f, readOk)
      product == newProduct(r, t)
      next == [db EXCEPT !.products = Append(@, product)]
  IN [file |-> writeDatabase(f, next, writeOk),
      resp |-> ProductCreated(product)]

----------------------------------------------------------------------------
(* POST /api/sales *)

\* !Array.isArray(items) || items.length === 0
itemsMissing(r) == ~r.isArray \/ Len(r.items) = 0

\* !totalAmount || Number(totalAmount) <= 0
totalInvalid(r) ==
  ~Truthy(r.totalAmount) \/ Le(ToNumber(r.totalAmount), Num(0))

\* items.map(i => ...) reads i.productId and throws a TypeError on a null
\* element of the array.
mapThrows(r) == \E i \in DOMAIN r.items : r.items[i].isNull

\* Mutant of newSale: customerName and paymentMethod are taken as sent,
\* without their defaults.
newSaleNoDefaults(r, t) ==
  [id |-> generateId(t, 0),
   customerName |-> r.customerName,
   items |-> [i \in DOMAIN r.items |->
                [productId |-> r.items[i].productId,
                 quantity |-> ToNumber(r.items[i].quantity)]],
   totalAmount |-> ToNumber(r.totalAmount),
   paymentMethod |-> r.paymentMethod,
   date |-> t]

newSale(r, t) ==
  [id |-> generateId(t, 0),
   customerName |-> IF r.customerName = "" THEN "Walk-in Customer"
                    ELSE r.customerName,
   items |-> [i \in DOMAIN r.items |->
                [productId |-> r.items[i].productId,
                 quantity |-> ToNumber(r.items[i].quantity)]],
   totalAmount |-> ToNumber(r.totalAmount),
   paymentMethod |-> IF r.paymentMethod = "" THEN "cash" ELSE r.paymentMethod,
   date |-> t]

\* Mutant of find: the predicate tests p.id alone, so the first product is
\* found whatever id is asked for.
findAny(products, productId) == IF Len(products) = 0 THEN 0 ELSE 1

\* db.products.find(p => p.id === productId): the position of the first
\* match, 0 when there is none.
find(products, productId) ==
  LET hits == {j \in DOMAIN products : products[j].id = productId}
  IN IF hits = {} THEN 0
     ELSE CHOOSE j \in hits : \A h \in hits : j <= h

\* Mutant of insufficient: the comparison is off by one.
insufficientOffByOne(product, item) ==
  Lt(product.quantity, Sub(item.quantity, Num(1)))

\* product.quantity < item.quantity
insufficient(product, item) == Lt(product.quantity, item.quantity)

\* Mutant of decrement: the stock goes down by one unit (quantity--)
\* whatever the item asks for.
decrementByOne(product, item, t) ==
  [product EXCEPT !.quantity = Sub(@, Num(1)), !.updatedAt = t]

\* Mutant of decrement: the stock is left as read, only the timestamp is
\* refreshed.
decrementNone(product, item, t) == [product EXCEPT !.updatedAt = t]

\* product.quantity -= item.quantity; product.updatedAt = new Date()
decrement(product, item, t) ==
  [product EXCEPT !.quantity = Sub(@, item.quantity), !.updatedAt = t]

\* Mutant of ledgerEntry: one unit is booked whatever the item asks for.
ledgerEntryUnit(product, item, sale, i, t) ==
  [id |-> generateId(t, i), productId |-> product.id, type |-> "out",
   quantity |-> Num(1), reason |-> sale.id, date |-> t]

ledgerEntry(product, item, sale, i, t) ==
  [id |-> generateId(t, i), productId |-> product.id, type |-> "out",
   quantity |-> item.quantity, reason |-> sale.id, date |-> t]

\* Mutant of sellItems: an unknown product is skipped (continue) instead of
\* ending the request.
RECURSIVE sellItemsSkip(_, _, _, _)
sellItemsSkip(db, sale, i, t) ==
  IF i > Len(sale.items) THEN [db |-> db, resp |-> NoResp]
  ELSE
    LET item == sale.items[i]
        j == find(db.products, item.productId)
    IN IF j = 0 THEN sellItemsSkip(db, sale, i + 1, t)
       ELSE IF insufficient(db.products[j], item)
         THEN [db |-> db, resp |-> InsufficientStock(db.products[j], item)]
       ELSE
         sellItemsSkip(
           [db EXCEPT
              !.products[j] = decrement(@, item, t),
              !.stockTransactions =
                 Append(@, ledgerEntry(db.products[j], item, sale, i, t))],
           sale, i + 1, t)

\* The loop over sale.items from position i on, on the document in memory:
\* the document it leaves in memory and the response of an early return
\* (NoResp when the loop runs to its end).
RECURSIVE sellItems(_, _, _, _)
sellItems(db, sale, i, t) ==
  IF i > Len(sale.items) THEN [db |-> db, resp |-> NoResp]
  ELSE
    LET item == sale.items[i]
        j == find(db.products, item.productId)
    IN IF j = 0 THEN [db |-> db, resp |-> NotFound(item.productId)]
       ELSE IF insufficient(db.products[j], item)
         THEN [db |-> db, resp |-> InsufficientStock(db.products[j], item)]
       ELSE
         sellItems(
           [db EXCEPT
              !.products[j] = decrement(@, item, t),
              !.stockTransactions =
                 Append(@, ledgerEntry(db.products[j], item, sale, i, t))],
           sale, i + 1, t)

\* Mutant of commit: the document in memory is written before an early
\* return too.
commitPartial(f, out, sale, writeOk) ==
  IF out.resp.status # 0
    THEN [file |-> writeDatabase(f, out.db, writeOk), resp |-> out.resp]
  ELSE [file |-> writeDatabase(f, [out.db EXCEPT !.sales = Append(@, sale)],
                               writeOk),
        resp |-> SaleRecorded(sale)]

\* Mutant of commit: the document is written before the sale is pushed.
commitBeforePush(f, out, sale, writeOk) ==
  IF out.resp.status # 0 THEN [file |-> f, resp |-> out.resp]
  ELSE [file |-> writeDatabase(f, out.db, writeOk),
        resp |-> SaleRecorded(sale)]

\* What the handler does once the loop has ended: an early return sends the
\* loop's response and writes nothing; otherwise the sale is pushed and the
\* document written, and 201 is sent whatever writeDatabase returned.
commit(f, out, sale, writeOk) ==
  IF out.resp.status # 0 THEN [file |-> f, resp |-> out.resp]
  ELSE [file |-> writeDatabase(f, [out.db EXCEPT !.sales = Append(@, sale)],
                               writeOk),
        resp |-> SaleRecorded(sale)]

\* Mutant of recordSale: totalAmount is checked before items.
recordSaleTotalFirst(f, r, t, readOk, writeOk) ==
  LET db == readDatabase(f, readOk)
  IN IF totalInvalid(r) THEN [file |-> f, resp |-> TotalRequired]
     ELSE IF itemsMissing(r) THEN [file |-> f, resp |-> ItemsRequired]
     ELSE IF mapThrows(r) THEN [file |-> f, resp |-> ServerError]
     ELSE LET sale == newSale(r, t)
          IN commit(f, sellItems(db, sale, 1, t), sale, writeOk)

\* The handler: the document it leaves and the response it sends.
recordSale(f, r, t, readOk, writeOk) ==
  LET db == readDatabase(f, readOk)
  IN IF itemsMissing(r) THEN [file |-> f, resp |-> ItemsRequired]
     ELSE IF totalInvalid(r) THEN [file |-> f, resp |-> TotalRequired]
     ELSE IF mapThrows(r) THEN [file |-> f, resp |-> ServerError]
     ELSE LET sale == newSale(r, t)
          IN commit(f, sellItems(db, sale, 1, t), sale, writeOk)

----------------------------------------------------------------------------
(* The second entry point, src/unnamed/part_000, translated on its own *)

readDatabase_part000(f, readOk) ==
  IF ~readOk THEN [products |-> <<>>, sales |-> <<>>, customers |-> <<>>,
                   stockTransactions |-> <<>>]
  ELSE f

writeDatabase_part000(f, data, writeOk) ==
  IF writeOk THEN Serialize(data) ELSE f

listProducts_part000(f, readOk) ==
  [status |-> 200, list |-> readDatabase_part000(f, readOk).products]

listSales_part000(f, readOk) ==
  [status |-> 200, list |-> readDatabase_part000(f, readOk).sales]

createProduct_part000(f, r, t, readOk, writeOk) ==
  LET db == readDatabase_part000(f, readOk)
      product == [id |-> generateId(t, 0), name |-> r.name,
                  quantity |-> ToNumber(r.quantity),
                  createdAt |-> t, updatedAt |-> t]
  IN [file |-> writeDatabase_part000(
                 f, [db EXCEPT !.products = db.products \o <<product>>],
                 writeOk),
      resp |-> [status |-> 201, product |-> JsonProduct(product)]]

\* The loop of part_000, which also collects the products it has touched in
\* updatedProducts (by position: the array holds references into
\* db.products) and never reads them.
RECURSIVE sellItems_part000(_, _, _, _, _)
sellItems_part000(db, updatedProducts, sale, i, t) ==
  IF i > Len(sale.items)
    THEN [db |-> db, updatedProducts |-> updatedProducts, done |-> TRUE,
          resp |-> NoResp]
  ELSE
    LET item == sale.items[i]
        matches == {j \in 1..Len(db.products) :
                      db.products[j].id = item.productId}
    IN IF matches = {}
         THEN [db |-> db, updatedProducts |-> updatedProducts,
               done |-> FALSE,
               resp |-> [status |-> 400, error |-> "Product not found",
                         productId |-> item.productId]]
       ELSE
         LET j == CHOOSE x \in matches : \A y \in matches : x <= y
             product == db.products[j]
         IN IF Lt(product.quantity, item.quantity)
              THEN [db |-> db, updatedProducts |-> updatedProducts,
                    done |-> FALSE,
                    resp |-> [status |-> 400, error |-> "Insufficient stock",
                              name |-> product.name,
                              available |-> product.quantity,
                              requested |-> item.quantity]]
            ELSE
              sellItems_part000(
                [db EXCEPT
                   !.products[j].quantity = Sub(@, item.quantity),
                   !.products[j].updatedAt = t,
                   !.stockTransactions =
                      @ \o <<[id |-> generateId(t, i),
                              productId |-> product.id, type |-> "out",
                              quantity |-> item.quantity,
                              reason |-> sale.id, date |-> t]>>],
                Append(updatedProducts, j), sale, i + 1, t)

recordSale_part000(f, r, t, readOk, writeOk) ==
  LET db == readDatabase_part000(f, readOk)
  IN IF ~r.isArray \/ Len(r.items) = 0
       THEN [file |-> f,
             resp |-> [status |-> 400, error |-> "Items array required"]]
     ELSE IF ~Truthy(r.totalAmount) \/ Le(ToNumber(r.totalAmount), Num(0))
       THEN [file |-> f,
             resp |-> [status |-> 400,
                       error |-> "Valid totalAmount required"]]
     ELSE IF \E i \in 1..Len(r.items) : r.items[i].isNull
       THEN [file |-> f, resp |-> [status |-> 500, error |-> "TypeError"]]
     ELSE
       LET sale ==
             [id |-> generateId(t, 0),
              customerName |-> IF r.customerName # "" THEN r.customerName
                               ELSE "Walk-in Customer",
              items |-> [i \in 1..Len(r.items) |->
                           [productId |-> r.items[i].productId,
                            quantity |-> ToNumber(r.items[i].quantity)]],
              totalAmount |-> ToNumber(r.totalAmount),
              paymentMethod |-> IF r.paymentMethod # "" THEN r.paymentMethod
                                ELSE "cash",
              date |-> t]
           out == sellItems_part000(db, <<>>, sale, 1, t)
       IN IF ~out.done THEN [file |-> f, resp |-> out.resp]
          ELSE [file |-> writeDatabase_part000(
                           f, [out.db EXCEPT !.sales = @ \o <<sale>>],
                           writeOk),
                resp |-> [status |-> 201, message |-> "Sale recorded",
                          sale |-> JsonSale(sale)]]

----------------------------------------------------------------------------
(* Requests *)

NoReq == [op |-> "none"]

\* The outcome of the fs calls of the handler that ran last.
NoIo == [readOk |-> TRUE, writeOk |-> TRUE]

Ghost == <<0, 0>>

ProductNames == {"A", "B"}

ProductQuantities == {Num(-1), Num(MaxQty), Num(MaxQty + 1), Undef}

ItemQuantities == {Num(-1), Undef} \cup {Num(q) : q \in 1..MaxQty}

TotalAmounts == {Undef, Str, Num(-1), Num(5)}

Labels == {<<"", "">>, <<"Bob", "card">>}

ProductRequests ==
  {[op |-> "createProduct", name |-> n, quantity |-> q] :
     n \in ProductNames, q \in ProductQuantities}

\* The product ids a client can know of, and one that names no product.
KnownIds(f) == {f.products[j].id : j \in DOMAIN f.products} \cup {Ghost}

NullItem == [isNull |-> TRUE, productId |-> Ghost, quantity |-> Undef]

Items(f) ==
  {[isNull |-> FALSE, productId |-> p, quantity |-> q] :
     p \in KnownIds(f), q \in ItemQuantities} \cup {NullItem}

ItemLists(f) ==
  UNION {[1..n -> Items(f)] : n \in 0..MaxItems}

SaleRequests(f) ==
  {[op |-> "recordSale", isArray |-> a, items |-> is, totalAmount |-> ta,
    customerName |-> l[1], paymentMethod |-> l[2]] :
     a \in {TRUE}, is \in ItemLists(f), ta \in TotalAmounts, l \in Labels}
  \cup
  {[op |-> "recordSale", isArray |-> FALSE, items |-> <<>>,
    totalAmount |-> ta, customerName |-> "", paymentMethod |-> ""] :
     ta \in TotalAmounts}

----------------------------------------------------------------------------
(* The server *)

Init ==
  /\ file = EmptyDB
  /\ now = 0
  /\ req = NoReq
  /\ resp = NoResp
  /\ io = NoIo
  /\ inflight = {}
  /\ frames = {}
  /\ order = <<>>

Idle == req.op = "none" /\ now < MaxCalls

CreateProduct ==
  /\ Idle
  /\ \E r \in ProductRequests, readOk \in BOOLEAN, writeOk \in BOOLEAN :
       LET out == createProduct(file, r, now + 1, readOk, writeOk)
       IN /\ file' = out.file
          /\ resp' = out.resp
          /\ req' = r
          /\ io' = [readOk |-> readOk, writeOk |-> writeOk]
  /\ now' = now + 1
  /\ UNCHANGED concurrent

RecordSale ==
  /\ Idle
  /\ \E r \in SaleRequests(file), readOk \in BOOLEAN, writeOk \in BOOLEAN :
       LET out == recordSale(file, r, now + 1, readOk, writeOk)
       IN /\ file' = out.file
          /\ resp' = out.resp
          /\ req' = r
          /\ io' = [readOk |-> readOk, writeOk |-> writeOk]
  /\ now' = now + 1
  /\ UNCHANGED concurrent

ListProducts ==
  /\ Idle
  /\ \E readOk \in BOOLEAN :
       /\ resp' = Listing(readDatabase(file, readOk).products)
       /\ io' = [readOk |-> readOk, writeOk |-> TRUE]
  /\ req' = [op |-> "listProducts"]
  /\ now' = now + 1
  /\ UNCHANGED <<file, concurrent>>

ListSales ==
  /\ Idle
  /\ \E readOk \in BOOLEAN :
       /\ resp' = Listing(readDatabase(file, readOk).sales)
       /\ io' = [readOk |-> readOk, writeOk |-> TRUE]
  /\ req' = [op |-> "listSales"]
  /\ now' = now + 1
  /\ UNCHANGED <<file, concurrent>>

\* The response has gone out; the server waits for the next request.
Respond ==
  /\ req.op # "none"
  /\ req' = NoReq
  /\ resp' = NoResp
  /\ io' = NoIo
  /\ UNCHANGED <<file, now, concurrent>>

Next ==
  \/ CreateProduct
  \/ RecordSale
  \/ ListProducts
  \/ ListSales
  \/ Respond

Spec == Init /\ [][Next]_vars

----------------------------------------------------------------------------
(* Requests that arrive together *)

MaxInflight == 2

\* Well-formed requests, enough to tell a lost update from a kept one.
ConcurrentRequests(f) ==
  {[op |-> "createProduct", name |-> "A", quantity |-> Num(q)] :
     q \in {MaxQty + 1}}
  \cup
  {[op |-> "recordSale", isArray |-> TRUE, items |-> is,
    totalAmount |-> Num(5), customerName |-> "", paymentMethod |-> ""] :
     is \in UNION {[1..n ->
                      {[isNull |-> FALSE, productId |-> p,
                        quantity |-> Num(q)] :
                         p \in KnownIds(f) \ {Ghost}, q \in 1..MaxQty}] :
                    n \in 1..MaxItems}}

\* The handler of a request, from its read to its response.
handler(f, r, t, readOk, writeOk) ==
  IF r.op = "createProduct" THEN createProduct(f, r, t, readOk, writeOk)
  ELSE recordSale(f, r, t, readOk, writeOk)

\* The handlers are synchronous from readDatabase() to writeDatabase() and
\* res.json(): the event loop enters a handler only when no other handler
\* is between its read and its return.
mayEnter(fr) == fr = {}

\* What a handler that has read db does from there, when the document is f
\* by the time it writes: it writes its document if it gets that far, and
\* responds.
afterRead(f, db, r, t, writeOk) ==
  LET out == handler(db, r, t, TRUE, TRUE)
  IN [file |-> IF out.file = db THEN f
               ELSE writeDatabase(f, out.file, writeOk),
      resp |-> out.resp]

Submit ==
  /\ now + Cardinality(inflight) + Cardinality(frames) < MaxCalls
  /\ Cardinality(inflight) + Cardinality(frames) < MaxInflight
  /\ \E r \in ConcurrentRequests(file) :
       inflight' = inflight \cup
         {[n |-> now + Cardinality(inflight) + Cardinality(frames) + 1,
           r |-> r]}
  /\ UNCHANGED <<file, now, req, resp, io, frames, order>>

\* The event loop takes a waiting request and its handler reads the document.
Enter ==
  /\ mayEnter(frames)
  /\ \E c \in inflight, readOk \in BOOLEAN :
       /\ inflight' = inflight \ {c}
       /\ frames' = frames \cup
            {[n |-> c.n, r |-> c.r, t |-> now + 1, readOk |-> readOk,
              db |-> readDatabase(file, readOk),
              together |-> Cardinality(inflight) + Cardinality(frames) > 1]}
  /\ now' = now + 1
  /\ UNCHANGED <<file, req, resp, io, order>>

\* A handler runs from its read to its end.
Leave ==
  /\ \E c \in frames, writeOk \in BOOLEAN :
       /\ file' = afterRead(file, c.db, c.r, c.t, writeOk).file
       /\ frames' = frames \ {c}
       /\ order' = Append(order, [r |-> c.r, t |-> c.t, readOk |-> c.readOk,
                                   writeOk |-> writeOk,
                                   together |-> c.together,
                                   resp |-> afterRead(file, c.db, c.r, c.t,
                                                      writeOk).resp])
  /\ UNCHANGED <<now, req, resp, io, inflight>>

NextConcurrent ==
  \/ Submit
  \/ Enter
  \/ Leave

SpecConcurrent == Init /\ [][NextConcurrent]_vars

----------------------------------------------------------------------------
(* What the claims speak of, stated apart from the handlers *)

IsPrefix(a, b) == Len(a) <= Len(b) /\ SubSeq(b, 1, Len(a)) = a

SaleStep == req'.op = "recordSale"

\* The request passes both request-level checks and its items can be mapped.
WellFormedRequest(r) ==
  /\ r.isArray
  /\ Len(r.items) > 0
  /\ \A i \in DOMAIN r.items : ~r.items[i].isNull

Requested(r, i) == ToNumber(r.items[i].quantity)

Naming(r, productId) ==
  {i \in DOMAIN r.items : r.items[i].productId = productId}

RECURSIVE SumOver(_, _)
SumOver(r, positions) ==
  IF positions = {} THEN 0
  ELSE LET i == CHOOSE x \in positions : TRUE
       IN Requested(r, i).v + SumOver(r, positions \ {i})

\* The quantity of a product of quantity q0 once the items at `positions`
\* have been taken from it, as the handler holds it in memory.
Taken(q0, r, positions) ==
  IF positions = {} THEN q0
  ELSE IF \E i \in positions : ~IsNum(Requested(r, i)) THEN NaN
  ELSE Sub(q0, Num(SumOver(r, positions)))

\* All effects of request r on document f are in document g, and nothing
\* else is.
AllEffects(f, r, g) ==
  LET n == Len(f.sales)
      m == Len(f.stockTransactions)
      k == Len(r.items)
  IN /\ Len(g.sales) = n + 1
     /\ IsPrefix(f.sales, g.sales)
     /\ Len(g.sales[n + 1].items) = k
     /\ \A i \in 1..k :
          /\ g.sales[n + 1].items[i].productId = r.items[i].productId
          /\ g.sales[n + 1].items[i].quantity = Json(Requested(r, i))
     /\ Len(g.stockTransactions) = m + k
     /\ IsPrefix(f.stockTransactions, g.stockTransactions)
     /\ \A i \in 1..k :
          /\ g.stockTransactions[m + i].productId = r.items[i].productId
          /\ g.stockTransactions[m + i].type = "out"
          /\ g.stockTransactions[m + i].quantity = Json(Requested(r, i))
     /\ g.customers = f.customers
     /\ Len(g.products) = Len(f.products)
     /\ \A j \in DOMAIN f.products :
          /\ g.products[j].id = f.products[j].id
          /\ g.products[j].quantity =
               Json(Taken(f.products[j].quantity, r,
                          Naming(r, f.products[j].id)))

NonNegativeStock(f) ==
  \A j \in DOMAIN f.products :
    IsNum(f.products[j].quantity) /\ f.products[j].quantity.v >= 0

IntegerItems(r) ==
  \A i \in DOMAIN r.items :
    ~r.items[i].isNull /\ IsNum(r.items[i].quantity)

Persisted(f, saleId) == \E j \in DOMAIN f.sales : f.sales[j].id = saleId

ProductIds(f) == {f.products[j].id : j \in DOMAIN f.products}

\* Item i of request r fails the check of its turn on document db: its
\* product is missing, or what the earlier items have left of it is less
\* than the item asks for.
Invalid(db, r, i) ==
  \/ r.items[i].productId \notin ProductIds(db)
  \/ LET j == CHOOSE x \in DOMAIN db.products :
                db.products[x].id = r.items[i].productId
         earlier == {h \in Naming(r, r.items[i].productId) : h < i}
     IN Lt(Taken(db.products[j].quantity, r, earlier), Requested(r, i))

HasInvalid(db, r) == \E i \in DOMAIN r.items : Invalid(db, r, i)

FirstInvalid(db, r) ==
  CHOOSE i \in DOMAIN r.items :
    Invalid(db, r, i) /\ \A h \in 1..(i - 1) : ~Invalid(db, r, h)

\* The response names item i of request r as the failing one.
RefersTo(db, r, i, response) ==
  IF r.items[i].productId \notin ProductIds(db)
    THEN response = NotFound(r.items[i].productId)
  ELSE LET j == CHOOSE x \in DOMAIN db.products :
                  db.products[x].id = r.items[i].productId
       IN /\ response.status = 400
          /\ response.error = "Insufficient stock"
          /\ response.name = db.products[j].name
          /\ response.requested = Requested(r, i)

QuantityOf(f, productId) ==
  LET j == CHOOSE x \in DOMAIN f.products : f.products[x].id = productId
  IN f.products[j].quantity

Positive(x) == IsNum(x) /\ x.v > 0

TotalMissingOrNotPositive(r) ==
  r.totalAmount.k = "undef" \/ (IsNum(r.totalAmount) /\ r.totalAmount.v <= 0)

ItemLevelError(response) ==
  /\ response.status = 400
  /\ response.error \in {"Product not found", "Insufficient stock"}

----------------------------------------------------------------------------
(* The claims *)

\* C1: a recordSale that validation rejects (a 400 response) leaves the
\* persisted document exactly as it was: products, sales and ledger.
C1_FailureLeavesStoreUntouched ==
  [][(SaleStep /\ resp'.status = 400) => file' = file]_vars

\* C1 witness: a sale was rejected at its second item after its first item,
\* on another product, had passed and been applied in memory.
C1_Witness ==
  /\ req.op = "recordSale"
  /\ io.readOk
  /\ resp.status = 400
  /\ resp.error = "Insufficient stock"
  /\ Len(req.items) = 2
  /\ req.items[1].productId # req.items[2].productId
  /\ req.items[1].productId \in ProductIds(file)
  /\ req.items[2].productId \in ProductIds(file)
  /\ Positive(req.items[1].quantity)
  /\ ~Lt(QuantityOf(file, req.items[1].productId), Requested(req, 1))
  /\ Lt(QuantityOf(file, req.items[2].productId), Requested(req, 2))

\* C2: a recordSale with integer item quantities, run on a document in which
\* no product quantity is negative, leaves no product quantity negative.
C2_StockNeverNegative ==
  [][(SaleStep /\ IntegerItems(req') /\ NonNegativeStock(file))
       => NonNegativeStock(file')]_vars

\* C2 witness: a recorded sale named one product in two items and sold it
\* down to exactly zero.
C2_Witness ==
  /\ req.op = "recordSale"
  /\ resp.status = 201
  /\ Persisted(file, resp.sale.id)
  /\ Len(req.items) = 2
  /\ req.items[1].productId = req.items[2].productId
  /\ Positive(req.items[1].quantity)
  /\ Positive(req.items[2].quantity)
  /\ QuantityOf(file, req.items[1].productId) = Num(0)

\* C3: a recordSale answers 201 only if its sale is in the persisted
\* document; a failed write is answered with an error.
C3_PersistenceFailureReported ==
  (req.op = "recordSale" /\ resp.status = 201)
    => Persisted(file, resp.sale.id)

\* C4: a recordSale leaves the persisted document either as it was or with
\* all its effects: the sale, one ledger entry per item, every decrement.
C4_AllOrNothing ==
  [][SaleStep => (file' = file \/ AllEffects(file, req', file'))]_vars

\* C4 witness: a sale of two items on two different products was written.
C4_Witness ==
  /\ req.op = "recordSale"
  /\ resp.status = 201
  /\ io.writeOk
  /\ Persisted(file, resp.sale.id)
  /\ Len(req.items) = 2
  /\ req.items[1].productId # req.items[2].productId
  /\ Len(file.stockTransactions) = 2

\* C5: every recordSale answered with 201 has all its effects in the
\* persisted document: each product is down by the sum of the items naming
\* it, one 'out' ledger entry per item, one sale appended.
C5_EffectOfValidSale ==
  [][(SaleStep /\ resp'.status = 201) => AllEffects(file, req', file')]_vars

\* C6: when an item of a well-formed request fails its check, the response
\* is the 400 that names the first such item, and the persisted quantities
\* of the products of the earlier items are unchanged.
C6_FirstFailingItemWins ==
  [][(/\ SaleStep
      /\ WellFormedRequest(req')
      /\ ~totalInvalid(req')
      /\ HasInvalid(readDatabase(file, io'.readOk), req'))
       => LET db == readDatabase(file, io'.readOk)
              k == FirstInvalid(db, req')
          IN /\ RefersTo(db, req', k, resp')
             /\ \A h \in 1..(k - 1) :
                  QuantityOf(file', req'.items[h].productId)
                    = QuantityOf(file, req'.items[h].productId)]_vars

\* C6 witness: the first item was in stock, the second named an unknown
\* product, and the response names the second.
C6_Witness ==
  /\ req.op = "recordSale"
  /\ io.readOk
  /\ Len(req.items) = 2
  /\ req.items[1].productId \in ProductIds(file)
  /\ Positive(req.items[1].quantity)
  /\ ~Lt(QuantityOf(file, req.items[1].productId), Requested(req, 1))
  /\ req.items[2].productId = Ghost
  /\ resp = NotFound(Ghost)

\* C7: every persisted sale has totalAmount > 0 and at least one item, and
\* every sale item and every ledger entry has quantity > 0.
C7_RecordedFactsWellFormed ==
  /\ \A j \in DOMAIN file.sales :
       /\ Positive(file.sales[j].totalAmount)
       /\ Len(file.sales[j].items) > 0
       /\ \A i \in DOMAIN file.sales[j].items :
            Positive(file.sales[j].items[i].quantity)
  /\ \A j \in DOMAIN file.stockTransactions :
       Positive(file.stockTransactions[j].quantity)

\* C8: whatever handler runs, and whether or not its read fails, the
\* persisted sales and ledger only grow at the end.
C8_AppendOnly ==
  [][/\ IsPrefix(file.sales, file'.sales)
     /\ IsPrefix(file.stockTransactions, file'.stockTransactions)]_vars

\* C9: every productId of a persisted ledger entry and of an item of a
\* persisted sale is the id of a persisted product.
C9_ReferentialIntegrity ==
  /\ \A j \in DOMAIN file.stockTransactions :
       file.stockTransactions[j].productId \in ProductIds(file)
  /\ \A j \in DOMAIN file.sales :
       \A i \in DOMAIN file.sales[j].items :
         file.sales[j].items[i].productId \in ProductIds(file)

\* C9 witness: a persisted sale has two items on two different products,
\* each with its ledger entry.
C9_Witness ==
  /\ Len(file.sales) = 1
  /\ Len(file.sales[1].items) = 2
  /\ file.sales[1].items[1].productId # file.sales[1].items[2].productId
  /\ Len(file.stockTransactions) = 2
  /\ Len(file.products) = 2

\* C10: no items is answered 'Items array required' whatever the
\* totalAmount; items with a missing or non-positive totalAmount are
\* answered 'Valid totalAmount required' whatever the items; an item-level
\* error is sent only when both request-level checks pass.
C10_RequestValidationOrder ==
  req.op = "recordSale" =>
    /\ (~req.isArray \/ Len(req.items) = 0) => resp = ItemsRequired
    /\ (req.isArray /\ Len(req.items) > 0 /\ TotalMissingOrNotPositive(req))
         => resp = TotalRequired
    /\ ItemLevelError(resp) =>
         /\ req.isArray
         /\ Len(req.items) > 0
         /\ ~TotalMissingOrNotPositive(req)

\* C10 witness: a request without totalAmount whose only item names an
\* unknown product was answered 'Valid totalAmount required'.
C10_Witness ==
  /\ req.op = "recordSale"
  /\ Len(req.items) = 1
  /\ ~req.items[1].isNull
  /\ req.items[1].productId = Ghost
  /\ req.totalAmount = Undef
  /\ resp = TotalRequired

\* The persisted sale of the given id.
SaleOf(f, saleId) ==
  f.sales[CHOOSE j \in DOMAIN f.sales : f.sales[j].id = saleId]

NameOf(f, productId) ==
  LET j == CHOOSE x \in DOMAIN f.products : f.products[x].id = productId
  IN f.products[j].name

Earlier(r, i) == {h \in Naming(r, r.items[i].productId) : h < i}

InsufficientResponse(response) ==
  response.status = 400 /\ response.error = "Insufficient stock"

\* C11: reading the document and writing back what was read leaves the
\* persisted document as it was, whether or not the read succeeds.
C11_StoreRoundTrip ==
  \A readOk \in BOOLEAN, writeOk \in BOOLEAN :
    writeDatabase(file, readDatabase(file, readOk), writeOk) = file

\* C12: the persisted sale of a recordSale answered with 201 has the
\* request's customerName and paymentMethod, or 'Walk-in Customer' and 'cash'
\* where they are empty, and the request's items and totalAmount.
C12_SaleDefaults ==
  (req.op = "recordSale" /\ resp.status = 201
     /\ Persisted(file, resp.sale.id))
    => LET s == SaleOf(file, resp.sale.id)
       IN /\ s.customerName = IF req.customerName = ""
                                THEN "Walk-in Customer" ELSE req.customerName
          /\ s.paymentMethod = IF req.paymentMethod = ""
                                 THEN "cash" ELSE req.paymentMethod
          /\ Len(s.items) = Len(req.items)
          /\ \A i \in DOMAIN req.items :
               /\ s.items[i].productId = req.items[i].productId
               /\ s.items[i].quantity = req.items[i].quantity
          /\ s.totalAmount = req.totalAmount

PositiveItems(r) ==
  \A i \in DOMAIN r.items :
    ~r.items[i].isNull /\ Positive(r.items[i].quantity)

\* C13 as claimed: an 'Insufficient stock' response reports as available
\* the persisted quantity of the product of the failing item (looked at for
\* requests of positive quantities on a stock that is nowhere negative).
C13_AvailableIsSnapshot ==
  [][(/\ SaleStep
      /\ io'.readOk
      /\ InsufficientResponse(resp')
      /\ PositiveItems(req')
      /\ NonNegativeStock(file))
       => \E k \in DOMAIN req'.items :
            /\ req'.items[k].productId \in ProductIds(file)
            /\ resp'.name = NameOf(file, req'.items[k].productId)
            /\ resp'.requested = Requested(req', k)
            /\ resp'.available = QuantityOf(file, req'.items[k].productId)]_vars

\* C13 as amended: the stock check of an item runs on the persisted quantity
\* less the earlier items of the request that name the same product, and an
\* 'Insufficient stock' response comes from the first item failing it and
\* reports that remainder as available.
C13_AvailableIsRemainder ==
  [][(SaleStep /\ io'.readOk /\ InsufficientResponse(resp'))
       => \E k \in DOMAIN req'.items :
            /\ req'.items[k].productId \in ProductIds(file)
            /\ \A h \in 1..(k - 1) : ~Invalid(file, req', h)
            /\ Invalid(file, req', k)
            /\ resp'.name = NameOf(file, req'.items[k].productId)
            /\ resp'.requested = Requested(req', k)
            /\ resp'.available =
                 Taken(QuantityOf(file, req'.items[k].productId), req',
                       Earlier(req', k))]_vars

\* C13 witness: the second item named the product of the first and was
\* refused with less reported as available than the document holds.
C13_Witness ==
  /\ req.op = "recordSale"
  /\ io.readOk
  /\ InsufficientResponse(resp)
  /\ Len(req.items) = 2
  /\ req.items[1].productId = req.items[2].productId
  /\ Positive(req.items[1].quantity)
  /\ IsNum(resp.available)
  /\ IsNum(QuantityOf(file, req.items[2].productId))
  /\ resp.available.v < QuantityOf(file, req.items[2].productId).v

\* a + b of JavaScript.
Add(a, b) ==
  LET x == ToNumber(a)
      y == ToNumber(b)
  IN IF IsNum(x) /\ IsNum(y) THEN Num(x.v + y.v) ELSE NaN

RECURSIVE OutTotal(_, _, _)
OutTotal(ledger, productId, n) ==
  IF n = 0 THEN Num(0)
  ELSE IF ledger[n].productId = productId /\ ledger[n].type = "out"
    THEN Add(OutTotal(ledger, productId, n - 1), ledger[n].quantity)
  ELSE OutTotal(ledger, productId, n - 1)

\* The quantity of a product plus all that the ledger says went out of it.
Balance(f, productId) ==
  Add(QuantityOf(f, productId),
      OutTotal(f.stockTransactions, productId, Len(f.stockTransactions)))

\* C16: with reads and writes succeeding, a product's quantity plus the
\* 'out' ledger quantities naming it is the quantity it was created with:
\* createProduct starts the sum at the created quantity and no createProduct
\* or recordSale changes it for a product already there.
C16_StockConservation ==
  [][(io'.readOk /\ io'.writeOk
        /\ req'.op \in {"createProduct", "recordSale"})
       => /\ \A j \in DOMAIN file.products :
               /\ file.products[j].id \in ProductIds(file')
               /\ Balance(file', file.products[j].id)
                    = Balance(file, file.products[j].id)
          /\ req'.op = "createProduct" =>
               Balance(file', resp'.product.id)
                 = ToNumber(Json(ToNumber(req'.quantity)))]_vars

\* The ledger entries of a sale, in ledger order.
EntriesOf(f, saleId) ==
  LET OfSale(t) == t.reason = saleId
  IN SelectSeq(f.stockTransactions, OfSale)

\* C17: every persisted ledger entry names a persisted sale, and the ledger
\* entries of a persisted sale are its items, one for one and in order, with
\* the item's productId and quantity.
C17_LedgerAndSalesAgree ==
  /\ \A j \in DOMAIN file.stockTransactions :
       Persisted(file, file.stockTransactions[j].reason)
  /\ \A j \in DOMAIN file.sales :
       LET s == file.sales[j]
           entries == EntriesOf(file, s.id)
       IN /\ Len(entries) = Len(s.items)
          /\ \A i \in DOMAIN s.items :
               /\ entries[i].productId = s.items[i].productId
               /\ entries[i].quantity = s.items[i].quantity

\* C17 witness: two sales are persisted, the second of two items of more
\* than one unit, each sale with its own ledger entries.
C17_Witness ==
  /\ Len(file.sales) = 2
  /\ Len(file.sales[2].items) = 2
  /\ Len(file.stockTransactions) = Len(file.sales[1].items) + 2
  /\ \E i \in 1..2 :
       /\ IsNum(file.sales[2].items[i].quantity)
       /\ file.sales[2].items[i].quantity.v > 1

\* The first item naming the product at which the items naming it so far
\* ask for more than the stock.
FirstOver(r, productId, stock) ==
  CHOOSE k \in Naming(r, productId) :
    /\ SumOver(r, {h \in Naming(r, productId) : h <= k}) > stock
    /\ \A g \in Naming(r, productId) :
         g < k => SumOver(r, {h \in Naming(r, productId) : h <= g}) <= stock

C15_EntryPointsEquivalent ==
  [][/\ req'.op = "recordSale" =>
          LET out == recordSale_part000(file, req', now', io'.readOk,
                                        io'.writeOk)
          IN out.file = file' /\ out.resp = resp'
     /\ req'.op = "createProduct" =>
          LET out == createProduct_part000(file, req', now', io'.readOk,
                                           io'.writeOk)
          IN out.file = file' /\ out.resp = resp'
     /\ req'.op = "listProducts" =>
          /\ resp' = listProducts_part000(file, io'.readOk)
          /\ file' = file
     /\ req'.op = "listSales" =>
          /\ resp' = listSales_part000(file, io'.readOk)
          /\ file' = file]_vars

\* C15 witness: server.js has recorded a sale with a customer name on two
\* products, and on the document it left part_000 refuses the same request
\* for lack of stock.
C15_Witness ==
  /\ req.op = "recordSale"
  /\ resp.status = 201
  /\ Persisted(file, resp.sale.id)
  /\ req.customerName # ""
  /\ Len(req.items) = 2
  /\ req.items[1].productId # req.items[2].productId
  /\ InsufficientResponse(
       recordSale_part000(file, req, now + 1, TRUE, TRUE).resp)

\* The document after the calls, run one after another from the empty
\* document in the order p.
RECURSIVE Replay(_, _, _)
Replay(calls, p, n) ==
  IF n = 0 THEN EmptyDB
  ELSE LET c == calls[p[n]]
       IN handler(Replay(calls, p, n - 1), c.r, c.t, c.readOk, c.writeOk).file

Orders(n) == {p \in [1..n -> 1..n] : \A i, j \in 1..n : p[i] = p[j] => i = j}

\* When every handler entered has returned, the persisted document is the
\* one that the calls made so far, run one after another in some order,
\* leave: the handlers do not interleave and no call's write is lost to
\* another's.
Serialized ==
  frames = {} =>
    \E p \in Orders(Len(order)) : file = Replay(order, p, Len(order))

\* Two sales of one product that waited together have both returned after
\* the product was created, both answered 201.
TwoSalesTogether ==
  /\ frames = {}
  /\ Len(order) = 3
  /\ order[1].r.op = "createProduct"
  /\ order[1].resp.status = 201
  /\ order[1].writeOk
  /\ \A i \in 2..3 : /\ order[i].r.op = "recordSale"
                      /\ order[i].resp.status = 201
  /\ order[2].together

\* C14: the handlers do not interleave, so the document is the one a serial
\* run of the calls leaves, and two sales of one product that were waiting
\* together and both answered 201 are both persisted with a ledger entry for
\* each of their items, the product's quantity being down by both.
C14_SerializedTransactions ==
  /\ Serialized
  /\ TwoSalesTogether =>
       /\ \A i \in 2..3 :
            /\ Persisted(file, order[i].resp.sale.id)
            /\ Len(EntriesOf(file, order[i].resp.sale.id)) =
                 Len(order[i].r.items)
       /\ Len(file.products) = 1
       /\ file.products[1].quantity =
            Num(MaxQty + 1 - SumOver(order[2].r, DOMAIN order[2].r.items)
                           - SumOver(order[3].r, DOMAIN order[3].r.items))

====
